---- MODULE Spec2Model ----
(***************************************************************************)
(* A model of libqtile/backend/wayland/output.py: the Output class of the  *)
(* Wayland backend (lifecycle, frame handler, layer-shell arrangement and  *)
(* the exclusive keyboard focus scan).                                     *)
(*                                                                         *)
(* Collaborators whose code is outside output.py (the wlroots scene layer  *)
(* helper `configure`, HasListeners, Core.remove_output, the events that   *)
(* change a surface or a layer bucket) are modelled from the               *)
(* specification and marked so in the model map.                           *)
(***************************************************************************)
EXTENDS Integers, Sequences, FiniteSets

\* ------------------------------------------------------------------ bounds
MaxOutputs == 3
MaxFewOutputs == 2
MaxWins == 2
MaxZone == 2
MaxFinalize == 2
MaxScreens == 2
MaxCoord == 3
MaxRect == 2

Outs == 1..MaxOutputs
Wins == 1..MaxWins

\* ------------------------------------------------------- program constants
\* LayerShellV1Layer: the enum indexes Output.layers.
BACKGROUND == 0
BOTTOM == 1
TOP == 2
OVERLAY == 3
Layers == {BACKGROUND, BOTTOM, TOP, OVERLAY}
\* reversed(LayerShellV1Layer)
\* (the enum in its own order, bottom to top)
LayersInEnumOrder == <<BACKGROUND, BOTTOM, TOP, OVERLAY>>
ReversedLayers == <<OVERLAY, TOP, BOTTOM, BACKGROUND>>
\* for layer in (LayerShellV1Layer.OVERLAY, LayerShellV1Layer.TOP)
\* (the same scan, TOP before OVERLAY)
ScanLayersTopFirst == <<TOP, OVERLAY>>
ScanLayers == <<OVERLAY, TOP>>

\* LayerSurfaceV1KeyboardInteractivity
KbModes == {"NONE", "ON_DEMAND", "EXCLUSIVE"}

\* Python's None, for core.exclusive_layer (windows are numbered from 1).
None == 0

\* LayerSurfaceV1Anchor: a set of edges.
Edges == {"top", "bottom", "left", "right"}

Box(x, y, w, h) == [x |-> x, y |-> y, width |-> w, height |-> h]

\* ------------------------------------------------------------------- state
VARIABLES
    created,          \* Output objects ever constructed
    core_outputs,     \* Core's registry of outputs (and of the output layout)
    listeners,        \* per Output: the signals its listeners are attached to
    pos,              \* per Output: <<x, y>>
    res,              \* per Output: wlr_output.effective_resolution()
    reserved,         \* per Output: _reserved_space (left, right, top, bottom)
    layers,           \* per Output: layers[layer], a list of windows
    wins,             \* per window: its output and surface.current
    exclusive_layer,  \* core.exclusive_layer
    screens,          \* qtile.screens
    current_screen,   \* qtile.current_screen (an index into screens)
    op,               \* the handler that ran last, and on which Output
    calls,            \* the calls that handler made on its collaborators
    reported,         \* per Output: the sum of the deltas given to reserve_space
    sink,             \* per screen: the sum of the deltas reserve_space got for it
    finalized,        \* per Output: how many times finalize() ran
    pending           \* the Output whose reflow the running event handler calls next

vars == <<created, core_outputs, listeners, pos, res, reserved, layers, wins,
          exclusive_layer, screens, current_screen, op, calls, reported, sink,
          finalized, pending>>

Zero4 == <<0, 0, 0, 0>>
EmptyLayers == [l \in Layers |-> <<>>]
NoWin == [output |-> 0, zone |-> 0, anchor |-> {}, kb |-> "NONE"]

\* --------------------------------------------------------- pure operations
Add4(a, b) == [i \in 1..4 |-> a[i] + b[i]]
Sub4(a, b) == [i \in 1..4 |-> a[i] - b[i]]

\* Output.get_geometry
get_geometry(o) == <<pos[o][1], pos[o][2], res[o][1], res[o][2]>>

\* core.output_layout.get_box().width: the bounding box of the outputs laid out.
LayoutWidth ==
    IF core_outputs = {} THEN 0
    ELSE LET lefts == {pos[o][1] : o \in core_outputs}
             rights == {pos[o][1] + res[o][1] : o \in core_outputs}
             lo == CHOOSE v \in lefts : \A u \in lefts : v <= u
             hi == CHOOSE v \in rights : \A u \in rights : v >= u
         IN hi - lo

\* A lookup that compares the position of a screen and not its size.
ScreenByPosition(o) ==
    LET g == get_geometry(o)
        match == {i \in DOMAIN screens : screens[i].x = g[1] /\ screens[i].y = g[2]}
    IN IF Len(screens) > 1 /\ match # {}
       THEN CHOOSE i \in match : \A j \in match : i <= j
       ELSE current_screen
\* Output.screen
screen(o) ==
    LET g == get_geometry(o)
        match == {i \in DOMAIN screens :
                      /\ screens[i].x = g[1] /\ screens[i].y = g[2]
                      /\ screens[i].width = g[3] /\ screens[i].height = g[4]}
    IN IF Len(screens) > 1 /\ match # {}
       THEN CHOOSE i \in match : \A j \in match : i <= j
       ELSE current_screen

\* Output.contains: the four early returns, then True.
contains(o, rect) ==
    IF rect.x + rect.width < pos[o][1] THEN FALSE
    ELSE IF rect.y + rect.height < pos[o][2] THEN FALSE
    ELSE IF pos[o][1] + res[o][1] < rect.x THEN FALSE
    ELSE IF pos[o][2] + res[o][2] < rect.y THEN FALSE
    ELSE TRUE

\* The surface placement capability: scene_layer.configure(full_area, usable_area)
\* shrinks usable_area along the anchored edge of an exclusive surface.
ShrinkUsable(usable, st) ==
    IF st.zone <= 0 THEN usable
    ELSE IF st.anchor \in {{"top"}, {"top", "left", "right"}}
         THEN [usable EXCEPT !.y = @ + st.zone, !.height = @ - st.zone]
    ELSE IF st.anchor \in {{"bottom"}, {"bottom", "left", "right"}}
         THEN [usable EXCEPT !.height = @ - st.zone]
    ELSE IF st.anchor \in {{"left"}, {"left", "top", "bottom"}}
         THEN [usable EXCEPT !.x = @ + st.zone, !.width = @ - st.zone]
    ELSE IF st.anchor \in {{"right"}, {"right", "top", "bottom"}}
         THEN [usable EXCEPT !.width = @ - st.zone]
    ELSE usable

\* Output._organise_layer over the list `ws`, told in two parts: the usable area
\* it leaves, and the calls it makes, in order.
RECURSIVE list_usable(_, _, _)
list_usable(ws, usable, exclusive) ==
    IF ws = <<>> THEN usable
    ELSE IF exclusive # (0 < wins[Head(ws)].zone)
         THEN list_usable(Tail(ws), usable, exclusive)
         ELSE list_usable(Tail(ws), ShrinkUsable(usable, wins[Head(ws)]), exclusive)

RECURSIVE list_calls(_, _, _)
list_calls(ws, usable, exclusive) ==
    IF ws = <<>> THEN <<>>
    ELSE IF exclusive # (0 < wins[Head(ws)].zone)
         THEN list_calls(Tail(ws), usable, exclusive)
         ELSE <<<<"configure", Head(ws), usable>>, <<"place", Head(ws)>>>>
              \o list_calls(Tail(ws), ShrinkUsable(usable, wins[Head(ws)]), exclusive)

\* for layer in reversed(LayerShellV1Layer): self._organise_layer(...)
RECURSIVE pass_usable(_, _, _, _)
pass_usable(o, order, usable, exclusive) ==
    IF order = <<>> THEN usable
    ELSE pass_usable(o, Tail(order),
                     list_usable(layers[o][Head(order)], usable, exclusive), exclusive)

RECURSIVE pass_calls(_, _, _, _)
pass_calls(o, order, usable, exclusive) ==
    IF order = <<>> THEN <<>>
    ELSE list_calls(layers[o][Head(order)], usable, exclusive)
         \o pass_calls(o, Tail(order),
                       list_usable(layers[o][Head(order)], usable, exclusive), exclusive)

\* Margins that take what is missing of the width and of the height, wherever
\* the usable area starts.
MarginsOfNoOrigin(o, usable) ==
    <<usable.x,
      res[o][1] - usable.width,
      usable.y,
      res[o][2] - usable.height>>
\* new_reserved_space of organise_layers, from the usable area left by the
\* exclusive pass.
MarginsOf(o, usable) ==
    <<usable.x,
      res[o][1] - usable.x - usable.width,
      usable.y,
      res[o][2] - usable.y - usable.height>>

FullArea(o) == Box(0, 0, res[o][1], res[o][2])

\* The usable area after an exclusive pass over the two upper layers only.
ExclusiveUsableTopOnly(o) == pass_usable(o, <<OVERLAY, TOP>>, FullArea(o), TRUE)
\* The exclusive pass: the usable area it leaves and the calls it makes.
ExclusiveUsable(o) == pass_usable(o, ReversedLayers, FullArea(o), TRUE)
ExclusiveCalls(o) == pass_calls(o, ReversedLayers, FullArea(o), TRUE)

new_reserved_space(o) == MarginsOf(o, ExclusiveUsable(o))

\* A second pass that starts again from the full area.
NonExclusiveCallsFullArea(o) == pass_calls(o, ReversedLayers, FullArea(o), FALSE)
\* The non-exclusive pass, against the usable area the exclusive pass left.
NonExclusiveCalls(o) == pass_calls(o, ReversedLayers, ExclusiveUsable(o), FALSE)

\* A scan that passes over the holder without releasing it.
RECURSIVE ScanNeverClears(_, _)
ScanNeverClears(ws, holder) ==
    IF ws = <<>> THEN [holder |-> holder, calls |-> <<>>]
    ELSE IF wins[Head(ws)].kb = "EXCLUSIVE"
         THEN [holder |-> Head(ws), calls |-> <<<<"focus_window", Head(ws)>>>>]
         ELSE ScanNeverClears(Tail(ws), holder)

\* "Find topmost keyboard interactive layer": the holder the scan leaves, the
\* core.focus_window calls it makes and the releases of the holder (line 151).
RECURSIVE scan_list(_, _)
scan_list(ws, holder) ==
    IF ws = <<>> THEN [holder |-> holder, calls |-> <<>>]
    ELSE LET win == Head(ws)
         IN IF wins[win].kb = "EXCLUSIVE"
            THEN [holder |-> win, calls |-> <<<<"focus_window", win>>>>]
            ELSE IF holder = win
                 THEN [holder |-> scan_list(Tail(ws), None).holder,
                       calls |-> <<<<"exclusive_layer = None", win>>>>
                                 \o scan_list(Tail(ws), None).calls]
                 ELSE scan_list(Tail(ws), holder)

ScanOrder(o) == layers[o][ScanLayers[1]] \o layers[o][ScanLayers[2]]

focus_scan(o) == scan_list(ScanOrder(o), exclusive_layer)

\* delta = tuple(new - old ...) and the value stored in _reserved_space.
\* Reporting the new margins themselves, and never storing them.
ReportNewSpace(o) == new_reserved_space(o)
delta_of(o) == Sub4(new_reserved_space(o), reserved[o])
KeepReservedSpace(o) == reserved[o]
stored_reserved_space(o) == new_reserved_space(o)

\* ------------------------------------------------------------ bookkeeping
\* op: the handler, its Output, whether an error left it, and whether it is an
\* organise_layers that directly follows another organise_layers of the same Output.
Handler(name, o) ==
    [name |-> name, output |-> o, raised |-> FALSE, repeat |-> FALSE]

\* The bucket of its output a window is in.
LayerOf(w) == CHOOSE l \in Layers : \E i \in DOMAIN layers[wins[w].output][l] :
                                        layers[wins[w].output][l][i] = w

Without(ws, w) == SelectSeq(ws, LAMBDA v : v # w)

\* A window object no list and no reference holds any more can be taken for a
\* new surface; the lowest such number is taken.
FreeWins == {w \in Wins : wins[w].output = 0 /\ exclusive_layer # w}
FreshWin(w) == w \in FreeWins /\ \A v \in FreeWins : w <= v

\* ----------------------------------------------------------------- actions
Init ==
    /\ created = {}
    /\ core_outputs = {}
    /\ listeners = [o \in Outs |-> {}]
    /\ pos = [o \in Outs |-> <<0, 0>>]
    /\ res = [o \in Outs |-> <<0, 0>>]
    /\ reserved = [o \in Outs |-> Zero4]
    /\ layers = [o \in Outs |-> EmptyLayers]
    /\ wins = [w \in Wins |-> NoWin]
    /\ exclusive_layer = None
    /\ screens = <<Box(0, 0, 2, 2), Box(2, 0, 2, 2)>>
    /\ current_screen = 1
    /\ op = Handler("start", 0)
    /\ calls = <<>>
    /\ reported = [o \in Outs |-> Zero4]
    /\ sink = [s \in 1..MaxScreens |-> Zero4]
    /\ finalized = [o \in Outs |-> 0]
    /\ pending = None

\* Output.__init__, for the next output the backend reports, with resolution r.
NewOutput(o, r) ==
    /\ pending = None
    /\ o \notin created
    /\ o = Cardinality(created) + 1
    /\ created' = created \cup {o}
    /\ reserved' = [reserved EXCEPT ![o] = Zero4]
    /\ res' = [res EXCEPT ![o] = r]
    /\ pos' = [pos EXCEPT ![o] = <<LayoutWidth, 0>>]
    /\ core_outputs' = core_outputs \cup {o}
    /\ listeners' = [listeners EXCEPT ![o] = {"destroy", "frame"}]
    /\ layers' = [layers EXCEPT ![o] = EmptyLayers]
    /\ op' = Handler("__init__", o)
    /\ calls' = <<<<"output_layout.add", o, LayoutWidth, 0>>>>
    /\ UNCHANGED <<wins, exclusive_layer, screens, current_screen, reported, sink,
                   finalized>>
    /\ pending' = None

\* HasListeners.finalize_listeners: every listener is removed.
finalize_listeners(o) == {}

\* Core.remove_output
remove_output(o) == core_outputs \ {o}

\* A finalize that removes the output and leaves its listeners attached.
FinalizeKeepsListeners(o) ==
    /\ listeners' = listeners
    /\ core_outputs' = remove_output(o)
    /\ finalized' = [finalized EXCEPT ![o] = @ + 1]
    /\ calls' = <<<<"remove_output", o>>>>

\* Output.finalize
finalize(o) ==
    /\ listeners' = [listeners EXCEPT ![o] = finalize_listeners(o)]
    /\ core_outputs' = remove_output(o)
    /\ finalized' = [finalized EXCEPT ![o] = @ + 1]
    /\ calls' = <<<<"finalize_listeners", o>>, <<"remove_output", o>>>>

\* Output._on_destroy, run when the backend emits the destroy signal of an output
\* whose destroy listener is attached.
_on_destroy(o) ==
    /\ pending = None
    /\ o \in created
    /\ "destroy" \in listeners[o]
    /\ finalized[o] < MaxFinalize
    /\ finalize(o)
    /\ op' = Handler("_on_destroy", o)
    /\ UNCHANGED <<created, pos, res, reserved, layers, wins, exclusive_layer,
                   screens, current_screen, reported, sink>>
    /\ pending' = None

\* The body of Output._on_frame: scene_output.commit() succeeds (ok) or raises
\* RuntimeError, which is caught; send_frame_done follows a commit that succeeded.
FrameAlwaysDone(o, ok) ==
    [calls |-> <<<<"commit", o, ok>>, <<"send_frame_done", o>>>>, raised |-> FALSE]
frame_body(o, ok) ==
    IF ok THEN [calls |-> <<<<"commit", o, TRUE>>, <<"send_frame_done", o>>>>,
                raised |-> FALSE]
    ELSE [calls |-> <<<<"commit", o, FALSE>>>>, raised |-> FALSE]

\* Output._on_frame, run when the backend emits the frame signal of an output
\* whose frame listener is attached.
_on_frame(o, ok) ==
    /\ pending = None
    /\ o \in created
    /\ "frame" \in listeners[o]
    /\ calls' = frame_body(o, ok).calls
    /\ op' = [Handler("_on_frame", o) EXCEPT !.raised = frame_body(o, ok).raised]
    /\ UNCHANGED <<created, core_outputs, listeners, pos, res, reserved, layers,
                   wins, exclusive_layer, screens, current_screen, reported, sink,
                   finalized>>
    /\ pending' = None

\* The backend changes the mode, scale or transform of a live output.
SetResolution(o, r) ==
    /\ pending = None
    /\ o \in core_outputs
    /\ r # res[o]
    /\ res' = [res EXCEPT ![o] = r]
    /\ op' = Handler("set_resolution", o)
    /\ calls' = <<>>
    /\ UNCHANGED <<created, core_outputs, listeners, pos, reserved, layers, wins,
                   exclusive_layer, screens, current_screen, reported, sink,
                   finalized>>
    /\ pending' = o

\* A layer surface is mapped on output o in layer l with committed state st.
NewSurface(w, o, l, st) ==
    /\ pending = None
    /\ o \in core_outputs
    /\ FreshWin(w)
    /\ wins' = [wins EXCEPT ![w] = [st EXCEPT !.output = o]]
    /\ layers' = [layers EXCEPT ![o][l] = Append(@, w)]
    /\ op' = Handler("new_surface", o)
    /\ calls' = <<>>
    /\ UNCHANGED <<created, core_outputs, listeners, pos, res, reserved,
                   exclusive_layer, screens, current_screen, reported, sink,
                   finalized>>
    /\ pending' = o

\* A layer surface commits a new state (surface.current changes).
Commit(w, st) ==
    /\ pending = None
    /\ wins[w].output \in core_outputs
    /\ st.output = wins[w].output
    /\ st # wins[w]
    /\ wins' = [wins EXCEPT ![w] = st]
    /\ op' = Handler("commit", wins[w].output)
    /\ calls' = <<>>
    /\ UNCHANGED <<created, core_outputs, listeners, pos, res, reserved, layers,
                   exclusive_layer, screens, current_screen, reported, sink,
                   finalized>>
    /\ pending' = wins[w].output

\* A layer surface changes layer: it leaves its bucket and is appended to l's.
ChangeLayer(w, l) ==
    /\ pending = None
    /\ wins[w].output \in core_outputs
    /\ l # LayerOf(w)
    /\ layers' = [layers EXCEPT ![wins[w].output] =
                      [k \in Layers |-> IF k = l THEN Append(@[k], w)
                                        ELSE Without(@[k], w)]]
    /\ op' = Handler("change_layer", wins[w].output)
    /\ calls' = <<>>
    /\ UNCHANGED <<created, core_outputs, listeners, pos, res, reserved, wins,
                   exclusive_layer, screens, current_screen, reported, sink,
                   finalized>>
    /\ pending' = wins[w].output

\* A layer surface is unmapped or destroyed: it leaves its bucket.
RemoveSurface(w) ==
    /\ pending = None
    /\ wins[w].output \in core_outputs
    /\ layers' = [layers EXCEPT ![wins[w].output] =
                      [k \in Layers |-> Without(@[k], w)]]
    /\ wins' = [wins EXCEPT ![w] = NoWin]
    /\ op' = Handler("remove_surface", wins[w].output)
    /\ calls' = <<>>
    /\ UNCHANGED <<created, core_outputs, listeners, pos, res, reserved,
                   exclusive_layer, screens, current_screen, reported, sink,
                   finalized>>
    /\ pending' = wins[w].output

\* Output.organise_layers
organise_layers(o) ==
    /\ pending \in {None, o}
    /\ o \in core_outputs
    /\ reserved' = [reserved EXCEPT ![o] = stored_reserved_space(o)]
    /\ reported' = [reported EXCEPT ![o] = Add4(@, delta_of(o))]
    /\ sink' = [sink EXCEPT ![screen(o)] = Add4(@, delta_of(o))]
    /\ exclusive_layer' = focus_scan(o).holder
    /\ calls' = ExclusiveCalls(o)
                 \o <<<<"reserve_space", delta_of(o), screen(o)>>>>
                 \o NonExclusiveCalls(o)
                 \o focus_scan(o).calls
    /\ op' = [Handler("organise_layers", o) EXCEPT
                 !.repeat = (op.name = "organise_layers" /\ op.output = o)]
    /\ UNCHANGED <<created, core_outputs, listeners, pos, res, layers, wins,
                   screens, current_screen, finalized>>
    /\ pending' = None

\* A caller asks a live output whether a window or drag icon is visible on it.
call_contains(o, rect) ==
    /\ pending = None
    /\ o \in core_outputs
    /\ calls' = <<<<"contains", o, rect, contains(o, rect)>>>>
    /\ op' = Handler("contains", o)
    /\ UNCHANGED <<created, core_outputs, listeners, pos, res, reserved, layers,
                   wins, exclusive_layer, screens, current_screen, reported, sink,
                   finalized, pending>>

\* A caller reads the screen property of a live output.
call_screen(o) ==
    /\ pending = None
    /\ o \in core_outputs
    /\ calls' = <<<<"screen", o, screen(o)>>>>
    /\ op' = Handler("screen", o)
    /\ UNCHANGED <<created, core_outputs, listeners, pos, res, reserved, layers,
                   wins, exclusive_layer, screens, current_screen, reported, sink,
                   finalized, pending>>

\* qtile moves its current screen to screen s.
SetCurrentScreen(s) ==
    /\ pending = None
    /\ s \in DOMAIN screens
    /\ s # current_screen
    /\ current_screen' = s
    /\ op' = Handler("set_current_screen", 0)
    /\ calls' = <<>>
    /\ UNCHANGED <<created, core_outputs, listeners, pos, res, reserved, layers,
                   wins, exclusive_layer, screens, reported, sink, finalized, pending>>

\* ---------------------------------------------------------- specifications
\* The inputs the environment draws from.
DefaultRes == <<2, 2>>
Resolutions == {<<2, 2>>, <<3, 2>>}
SingleEdges == {{e} : e \in Edges}
Surface(z, a, k) == [output |-> 0, zone |-> z, anchor |-> a, kb |-> k]

\* Lifecycle: outputs are created, change resolution, frame and are destroyed.
Next ==
    \/ \E o \in Outs, r \in Resolutions : NewOutput(o, r)
    \/ \E o \in Outs : _on_destroy(o)
    \/ \E o \in Outs, ok \in BOOLEAN : _on_frame(o, ok)
    \/ \E o \in Outs, r \in Resolutions : SetResolution(o, r)
    \/ \E o \in Outs : organise_layers(o)

Spec == Init /\ [][Next]_vars

\* Exclusive keyboard focus: the first MaxFewOutputs outputs; surfaces in the two layers the scan
\* visits and in one it does not, asking for exclusive keyboard focus or not.
FocusLayers == {OVERLAY, TOP, BOTTOM}
\* ON_DEMAND takes the branches of NONE in the scan.
FocusModes == KbModes \ {"ON_DEMAND"}
NextFocus ==
    \/ \E o \in 1..MaxFewOutputs : NewOutput(o, DefaultRes)
    \/ \E w \in Wins, o \in Outs, l \in FocusLayers, k \in FocusModes :
           NewSurface(w, o, l, Surface(0, {"top"}, k))
    \/ \E w \in Wins, k \in FocusModes : Commit(w, [wins[w] EXCEPT !.kb = k])
    \/ \E w \in Wins, l \in FocusLayers : ChangeLayer(w, l)
    \/ \E w \in Wins : RemoveSurface(w)
    \/ \E o \in Outs : organise_layers(o)

SpecFocus == Init /\ [][NextFocus]_vars

\* Arrangement: one output that frames and is destroyed; surfaces above and below
\* the windows, not exclusive or exclusive on an edge that moves the origin of the
\* usable area (top) or on one that does not (right).  A surface changes its zone
\* or anchor here by being unmapped and mapped again.
ArrangeLayers == {TOP, BACKGROUND}
ArrangeAnchors == {{"top"}, {"right"}}
ArrangeStates ==
    {Surface(z, {"top"}, "NONE") : z \in (-1)..0}
    \cup {Surface(z, a, "NONE") : z \in 1..MaxZone, a \in ArrangeAnchors}

NextArrange ==
    \/ NewOutput(1, DefaultRes)
    \/ \E w \in Wins, l \in ArrangeLayers, st \in ArrangeStates : NewSurface(w, 1, l, st)
    \/ \E w \in Wins, l \in ArrangeLayers : ChangeLayer(w, l)
    \/ \E w \in Wins : RemoveSurface(w)
    \/ organise_layers(1)
    \/ \E ok \in BOOLEAN : _on_frame(1, ok)
    \/ _on_destroy(1)

SpecArrange == Init /\ [][NextArrange]_vars

\* Layout: outputs are created and destroyed in any order, and frame.
NextLayout ==
    \/ \E o \in Outs, r \in Resolutions : NewOutput(o, r)
    \/ \E o \in Outs : _on_destroy(o)
    \/ \E o \in Outs, ok \in BOOLEAN : _on_frame(o, ok)

SpecLayout == Init /\ [][NextLayout]_vars

\* Visibility: the first MaxFewOutputs outputs, side by side, asked about windows
\* left of, right of, above, below, touching and overlapping them.
Rects ==
    {Box(x, y, w, h) : x \in (-MaxCoord)..MaxCoord, y \in (-MaxCoord)..MaxCoord,
                       w \in 1..MaxRect, h \in 1..MaxRect}
NextContains ==
    \/ \E o \in 1..MaxFewOutputs, r \in Resolutions : NewOutput(o, r)
    \/ \E o \in Outs, rect \in Rects : call_contains(o, rect)

SpecContains == Init /\ [][NextContains]_vars

\* Screen lookup: qtile is configured with one screen or several, some of them at
\* the place of an output, with its size or another, and any of them current.
ScreenBoxes == {Box(0, 0, 2, 2), Box(0, 0, 3, 2), Box(2, 0, 2, 2)}
RECURSIVE SeqsOf(_, _)
SeqsOf(S, n) ==
    IF n = 0 THEN {<<>>}
    ELSE {Append(q, b) : q \in SeqsOf(S, n - 1), b \in S}
ScreenConfigs == UNION {SeqsOf(ScreenBoxes, n) : n \in 1..MaxScreens}
InitScreens ==
    /\ created = {}
    /\ core_outputs = {}
    /\ listeners = [o \in Outs |-> {}]
    /\ pos = [o \in Outs |-> <<0, 0>>]
    /\ res = [o \in Outs |-> <<0, 0>>]
    /\ reserved = [o \in Outs |-> Zero4]
    /\ layers = [o \in Outs |-> EmptyLayers]
    /\ wins = [w \in Wins |-> NoWin]
    /\ exclusive_layer = None
    /\ screens \in ScreenConfigs
    /\ current_screen \in DOMAIN screens
    /\ op = Handler("start", 0)
    /\ calls = <<>>
    /\ reported = [o \in Outs |-> Zero4]
    /\ sink = [s \in 1..MaxScreens |-> Zero4]
    /\ finalized = [o \in Outs |-> 0]
    /\ pending = None
NextScreen ==
    \/ \E o \in 1..MaxFewOutputs, r \in Resolutions : NewOutput(o, r)
    \/ \E s \in 1..MaxScreens : SetCurrentScreen(s)
    \/ \E o \in Outs : call_screen(o)

SpecScreen == InitScreens /\ [][NextScreen]_vars

\* ------------------------------------------------------------------ claims
Upper == {OVERLAY, TOP}
InBucket(w, o, l) == \E i \in DOMAIN layers[o][l] : layers[o][l][i] = w
InUpper(w, o) == \E l \in Upper : InBucket(w, o, l)
OnOutput(o) == {w \in Wins : \E l \in Layers : InBucket(w, o, l)}

\* The step just taken (in an action formula) or the last step taken (in a state
\* predicate) is organise_layers on o.
OrganiseStep(o) == op'.name = "organise_layers" /\ op'.output = o
Organised(o) == op.name = "organise_layers" /\ op.output = o

CallsNamed(c, name) == SelectSeq(c, LAMBDA e : e[1] = name)
\* The deltas a handler gave to reserve_space, and the windows it focused.
ReportedDeltas(c) ==
    [i \in DOMAIN CallsNamed(c, "reserve_space") |-> CallsNamed(c, "reserve_space")[i][2]]
Focused(c) ==
    [i \in DOMAIN CallsNamed(c, "focus_window") |-> CallsNamed(c, "focus_window")[i][2]]

\* The holder as far as Output o is concerned: the holder, when it is a surface
\* of o.
HolderOf(o) ==
    IF exclusive_layer # None /\ wins[exclusive_layer].output = o
    THEN exclusive_layer ELSE None

\* C1 (as claimed): after every completed organise_layers on an Output the holder
\* is None or a surface whose keyboard mode is EXCLUSIVE and that is in the
\* OVERLAY or TOP bucket of that Output.
C1_HolderExclusiveInUpper ==
    \A o \in Outs :
        Organised(o) =>
            \/ exclusive_layer = None
            \/ /\ wins[exclusive_layer].kb = "EXCLUSIVE"
               /\ InUpper(exclusive_layer, o)

\* C2 (as claimed): between handlers the holder of an Output is always None or a
\* surface in the OVERLAY or TOP bucket of that Output, and organise_layers on one
\* Output never sets, replaces or clears the holder of another Output.
C2_HolderPerOutput ==
    /\ [](pending = None =>
             \A o \in Outs : HolderOf(o) = None \/ InUpper(HolderOf(o), o))
    /\ [][\A o \in Outs : \A q \in Outs :
              (OrganiseStep(q) /\ q # o) => HolderOf(o)' = HolderOf(o)]_vars

\* The first EXCLUSIVE surface among all OVERLAY surfaces in insertion order,
\* then all TOP surfaces in insertion order; None when there is none.
FirstExclusive(o) ==
    LET order == layers[o][OVERLAY] \o layers[o][TOP]
        hits == {i \in DOMAIN order : wins[order[i]].kb = "EXCLUSIVE"}
    IN IF hits = {} THEN None
       ELSE order[CHOOSE i \in hits : \A j \in hits : i <= j]

\* C5: organise_layers ends with the holder equal to the first EXCLUSIVE surface
\* in scan order (OVERLAY before TOP, insertion order within a layer) and focuses
\* exactly that surface, once; with no EXCLUSIVE surface in OVERLAY or TOP it
\* focuses nothing; and no step makes a surface outside OVERLAY and TOP the holder.
C5_FirstExclusiveWins ==
    [][/\ \A o \in Outs :
            OrganiseStep(o) =>
                IF FirstExclusive(o) # None
                THEN /\ exclusive_layer' = FirstExclusive(o)
                     /\ Focused(calls') = <<FirstExclusive(o)>>
                ELSE Focused(calls') = <<>>
       /\ (exclusive_layer' # exclusive_layer /\ exclusive_layer' # None) =>
              \E o \in Outs : OrganiseStep(o) /\ (InUpper(exclusive_layer, o))'
      ]_vars

\* Scenario C is reached: an EXCLUSIVE surface in OVERLAY and another in TOP, the
\* TOP one mapped first, and organise_layers has made the OVERLAY one the holder.
C5_Witness ==
    \E o \in Outs : \E a \in Wins : \E b \in Wins :
        /\ Organised(o)
        /\ a > b
        /\ InBucket(a, o, OVERLAY) /\ InBucket(b, o, TOP)
        /\ wins[a].kb = "EXCLUSIVE" /\ wins[b].kb = "EXCLUSIVE"
        /\ exclusive_layer = a
        /\ Focused(calls) = <<a>>

\* C3: an organise_layers that directly follows an organise_layers of the same
\* Output (nothing changed in between) reports the delta (0,0,0,0).
C3_SecondCallZeroDelta ==
    [][(/\ op.name = "organise_layers" /\ op'.name = "organise_layers"
        /\ op'.output = op.output) => ReportedDeltas(calls') = <<Zero4>>]_vars

\* A second call in a row has run on an output whose margins are not zero.
C3_Witness ==
    \E o \in Outs :
        /\ Organised(o) /\ op.repeat
        /\ reserved[o] # Zero4
        /\ ReportedDeltas(calls) = <<Zero4>>

\* C4 (as claimed): after every organise_layers the four stored margins are >= 0,
\* left + right <= effective width and top + bottom <= effective height.
C4_MarginsWithinOutput ==
    \A o \in Outs :
        Organised(o) =>
            /\ \A i \in 1..4 : reserved[o][i] >= 0
            /\ reserved[o][1] + reserved[o][2] <= res[o][1]
            /\ reserved[o][3] + reserved[o][4] <= res[o][2]

\* The configure calls of a handler, in order: <<"configure", window, usable area>>.
Configured(c) == CallsNamed(c, "configure")

\* The usable area that the stored margins of o leave of its full area.
UsableLeft(o) ==
    Box(reserved[o][1], reserved[o][3],
        res[o][1] - reserved[o][1] - reserved[o][2],
        res[o][2] - reserved[o][3] - reserved[o][4])

\* C6: in one organise_layers every surface of the Output is configured, those
\* with exclusive_zone > 0 (of all layers) before any with exclusive_zone <= 0,
\* and each surface with exclusive_zone <= 0 is configured with the final usable
\* area, the one the stored margins describe.
C6_ExclusiveBeforeOthers ==
    \A o \in Outs :
        Organised(o) =>
            LET cfg == Configured(calls)
            IN /\ {cfg[i][2] : i \in DOMAIN cfg} = OnOutput(o)
               /\ \A i \in DOMAIN cfg : \A j \in DOMAIN cfg :
                      (wins[cfg[i][2]].zone <= 0 /\ wins[cfg[j][2]].zone > 0) => j < i
               /\ \A i \in DOMAIN cfg :
                      wins[cfg[i][2]].zone <= 0 => cfg[i][3] = UsableLeft(o)

\* A surface that is not exclusive lies in a layer above an exclusive one, and
\* organise_layers has arranged both.
C6_Witness ==
    \E o \in Outs : \E a \in Wins : \E b \in Wins :
        /\ Organised(o)
        /\ InBucket(a, o, TOP) /\ wins[a].zone <= 0
        /\ InBucket(b, o, BACKGROUND) /\ wins[b].zone > 0
        /\ Len(Configured(calls)) = 2

\* What a surface in state st reserves on an edge: its zone when it is exclusive and
\* anchored to that edge alone or to it and the two edges next to it.
Reserves(st, edge) ==
    LET sides == IF edge \in {"top", "bottom"} THEN {"left", "right"}
                 ELSE {"top", "bottom"}
    IN IF st.zone > 0 /\ st.anchor \in {{edge}, {edge} \cup sides} THEN st.zone ELSE 0

RECURSIVE EdgeSum(_, _)
EdgeSum(S, edge) ==
    IF S = {} THEN 0
    ELSE LET w == CHOOSE v \in S : TRUE
         IN Reserves(wins[w], edge) + EdgeSum(S \ {w}, edge)

\* The margins the exclusive surfaces of o ask for, edge by edge, in the order
\* (left, right, top, bottom).
AskedMargins(o) ==
    <<EdgeSum(OnOutput(o), "left"), EdgeSum(OnOutput(o), "right"),
      EdgeSum(OnOutput(o), "top"), EdgeSum(OnOutput(o), "bottom")>>

\* C7: the margins organise_layers computes are those the set of exclusive
\* surfaces of the Output asks for, edge by edge, whatever the layer each surface
\* is in and whatever the order of the surfaces in a bucket.
C7_MarginsIgnoreStacking ==
    \A o \in core_outputs : new_reserved_space(o) = AskedMargins(o)

\* An exclusive surface has just moved below another exclusive surface, to the
\* BACKGROUND layer, and the margins to come are not zero.
C7_Witness ==
    \E o \in Outs : \E a \in Wins : \E b \in Wins :
        /\ op.name = "change_layer" /\ op.output = o
        /\ wins[a].zone > 0 /\ wins[b].zone > 0 /\ a # b
        /\ InBucket(a, o, TOP)
        /\ layers[o][BACKGROUND] # <<>> /\ layers[o][BACKGROUND][Len(layers[o][BACKGROUND])] = b
        /\ new_reserved_space(o) # Zero4

\* C8: every organise_layers reports exactly one delta, the margins of the final
\* usable area minus the stored margins, and stores those margins; the stored
\* margins of an Output are always the sum of the deltas it reported, and no step
\* but its organise_layers changes them.
C8_MarginsAreSumOfDeltas ==
    /\ [](\A o \in Outs : reserved[o] = reported[o])
    /\ [][IF op'.name = "organise_layers"
          THEN /\ ReportedDeltas(calls') =
                      <<Sub4(AskedMargins(op'.output), reserved[op'.output])>>
               /\ reserved'[op'.output] = AskedMargins(op'.output)
               /\ \A q \in Outs \ {op'.output} : reserved'[q] = reserved[q]
          ELSE reserved' = reserved
         ]_vars

\* An organise_layers has stored margins that are not zero, and the output has
\* framed or been destroyed since with its margins kept.
C8_Witness ==
    \E o \in Outs :
        /\ op.name \in {"_on_frame", "_on_destroy"} /\ op.output = o
        /\ reserved[o] # Zero4
        /\ reported[o] = reserved[o]

\* The state of the Output objects and of what they share, without the record
\* of the last handler.
OutputState ==
    <<created, core_outputs, listeners, pos, res, reserved, layers, wins,
      exclusive_layer, screens, current_screen, reported, sink, finalized,
      pending>>

\* C9: a frame handler attempts exactly one scene commit; it sends frame-done if
\* and only if the commit succeeded, and after it; a rejected commit sends
\* nothing; no error leaves the handler, no state of an Output changes, and the
\* frame listener stays attached, so the next frame signal commits again.
C9_FrameCommitThenDone ==
    [][\A o \in Outs :
          (op'.name = "_on_frame" /\ op'.output = o) =>
              /\ Len(CallsNamed(calls', "commit")) = 1
              /\ calls'[1][1] = "commit"
              /\ IF calls'[1][3]
                 THEN calls' = <<<<"commit", o, TRUE>>, <<"send_frame_done", o>>>>
                 ELSE calls' = <<<<"commit", o, FALSE>>>>
              /\ ~op'.raised
              /\ OutputState' = OutputState
              /\ "frame" \in listeners'[o]
      ]_vars

\* A commit was rejected on a live output that has framed, and the frame handler
\* can run again.
C9_Witness ==
    \E o \in Outs :
        /\ op.name = "_on_frame" /\ op.output = o
        /\ calls = <<<<"commit", o, FALSE>>>>
        /\ o \in core_outputs
        /\ ENABLED _on_frame(o, TRUE)

\* C10: an Output is finalized at most once, and only by its destroy handler;
\* finalize releases the listeners and then removes the Output from the registry;
\* once finalized, no frame or destroy handler runs on it and it never is in the
\* registry again.
C10_FinalizedOnce ==
    /\ [](\A o \in Outs : finalized[o] <= 1)
    /\ [][\A o \in Outs :
           /\ finalized'[o] # finalized[o] =>
                  /\ op' = Handler("_on_destroy", o)
                  /\ calls' = <<<<"finalize_listeners", o>>, <<"remove_output", o>>>>
                  /\ listeners'[o] = {}
                  /\ o \notin core_outputs'
           /\ finalized[o] > 0 =>
                  /\ ~(op'.output = o /\ op'.name \in {"_on_frame", "_on_destroy"})
                  /\ finalized'[o] = finalized[o]
                  /\ o \notin core_outputs'
                  /\ listeners'[o] = {}
          ]_vars

\* An output was finalized while another one lives on and frames.
C10_Witness ==
    \E o \in Outs : \E q \in Outs :
        /\ finalized[o] = 1 /\ o \notin core_outputs /\ listeners[o] = {}
        /\ q \in core_outputs
        /\ op.name = "_on_frame" /\ op.output = q

\* The rect and the bounding box of o (position plus effective resolution)
\* overlap in a region of positive area.
Overlaps(o, rect) ==
    /\ rect.x < pos[o][1] + res[o][1] /\ pos[o][1] < rect.x + rect.width
    /\ rect.y < pos[o][2] + res[o][2] /\ pos[o][2] < rect.y + rect.height

\* C11 (as claimed): for a rect of positive width and height, contains returns
\* true exactly when the rect and the bounding box of the output overlap in a
\* region of positive area; a rect that only abuts an edge of the box gets false.
C11_ContainsIffOverlap ==
    op.name = "contains" =>
        calls[1][4] = Overlaps(calls[1][2], calls[1][3])

\* Screen i has exactly the geometry of output o.
ScreenMatches(i, o) ==
    /\ screens[i].x = pos[o][1] /\ screens[i].y = pos[o][2]
    /\ screens[i].width = res[o][1] /\ screens[i].height = res[o][2]

\* C13: with more than one screen configured the lookup returns the first screen,
\* in configuration order, whose x, y, width and height equal the geometry of the
\* Output; with no such screen, or with at most one screen configured, it returns
\* the current screen.
C13_ScreenFirstExactMatch ==
    op.name = "screen" =>
        LET o == calls[1][2]
            r == calls[1][3]
        IN IF Len(screens) > 1 /\ \E i \in DOMAIN screens : ScreenMatches(i, o)
           THEN /\ r \in DOMAIN screens
                /\ ScreenMatches(r, o)
                /\ \A j \in 1..(r - 1) : ~ScreenMatches(j, o)
           ELSE r = current_screen

\* A lookup has returned a screen that is not the current one, passing over a
\* screen at the same place with another size.
C13_Witness ==
    /\ op.name = "screen"
    /\ calls[1][3] # current_screen
    /\ \E j \in 1..(calls[1][3] - 1) :
           /\ screens[j].x = screens[calls[1][3]].x
           /\ ~ScreenMatches(j, calls[1][2])

\* The step just taken constructed Output o.
CreationStep(o) == op'.name = "__init__" /\ op'.output = o

RECURSIVE WidthSum(_)
WidthSum(S) ==
    IF S = {} THEN 0
    ELSE LET o == CHOOSE v \in S : TRUE
         IN res[o][1] + WidthSum(S \ {o})

\* C12 (as claimed): every new Output is placed at (layout width just before its
\* creation, 0) and its creation increases the layout width by exactly its
\* width; so when creations are all that has happened, its x is the sum of the
\* widths of the Outputs created before it.
C12_NewOutputAtLayoutWidth ==
    [][\A o \in Outs :
          CreationStep(o) =>
              /\ pos'[o] = <<LayoutWidth, 0>>
              /\ LayoutWidth' = LayoutWidth + res'[o][1]
              /\ (created = core_outputs => pos'[o][1] = WidthSum(created))
      ]_vars

\* The bounding boxes of two live outputs overlap horizontally.
OverlapX(o, p) ==
    /\ pos[o][1] < pos[p][1] + res[p][1]
    /\ pos[p][1] < pos[o][1] + res[o][1]
NoOverlap == \A o \in core_outputs : \A p \in core_outputs \ {o} : ~OverlapX(o, p)

\* C18 (as claimed): whatever the interleaving of creations and destructions, a
\* new Output lies entirely to the right of every Output live at that moment,
\* and no two live Outputs overlap horizontally.
C18_NewOutputRightOfLive ==
    /\ []NoOverlap
    /\ [][\A o \in Outs :
             CreationStep(o) =>
                 \A p \in core_outputs : pos[p][1] + res[p][1] <= pos'[o][1]
         ]_vars

\* The scan of organise_layers on o reaches window h: h is in the OVERLAY or TOP
\* bucket of o and no surface before it in scan order is EXCLUSIVE.
ScanVisits(o, h) ==
    LET order == layers[o][OVERLAY] \o layers[o][TOP]
    IN \E i \in DOMAIN order :
           /\ order[i] = h
           /\ \A j \in 1..(i - 1) : wins[order[j]].kb # "EXCLUSIVE"
Released(c) ==
    [i \in DOMAIN CallsNamed(c, "exclusive_layer = None") |->
        CallsNamed(c, "exclusive_layer = None")[i][2]]

\* C14: when the holder is a surface the scan of organise_layers visits and its
\* mode is no longer EXCLUSIVE, the call releases it, once; if no OVERLAY or TOP
\* surface is EXCLUSIVE the call then ends with no holder and focuses nothing.  A
\* holder the scan does not visit is never released by the call.
C14_VisitedHolderReleased ==
    [][\A o \in Outs :
          OrganiseStep(o) =>
              IF /\ exclusive_layer # None
                 /\ ScanVisits(o, exclusive_layer)
                 /\ wins[exclusive_layer].kb # "EXCLUSIVE"
              THEN /\ Released(calls') = <<exclusive_layer>>
                   /\ exclusive_layer' # exclusive_layer
                   /\ FirstExclusive(o) = None =>
                          exclusive_layer' = None /\ Focused(calls') = <<>>
              ELSE /\ Released(calls') = <<>>
                   /\ exclusive_layer # None => exclusive_layer' # None
      ]_vars

\* A holder that gave up EXCLUSIVE has been released by an organise_layers that
\* found no other EXCLUSIVE surface, while a surface of the Output sits in BOTTOM.
C14_Witness ==
    \E o \in Outs : \E w \in Wins :
        /\ Organised(o)
        /\ Released(calls) = <<w>>
        /\ InUpper(w, o) /\ wins[w].kb = "NONE"
        /\ exclusive_layer = None
        /\ Focused(calls) = <<>>
        /\ layers[o][BOTTOM] # <<>>

\* The surfaces of o with exclusive_zone > 0.
ExclusiveOn(o) == {w \in OnOutput(o) : wins[w].zone > 0}
\* Margins of z on one edge and 0 on the other three, as (left, right, top, bottom).
OnEdge(e, z) ==
    <<IF e = "left" THEN z ELSE 0, IF e = "right" THEN z ELSE 0,
      IF e = "top" THEN z ELSE 0, IF e = "bottom" THEN z ELSE 0>>
Extent(o, e) == IF e \in {"left", "right"} THEN res[o][1] ELSE res[o][2]

\* C15: with no surface of exclusive_zone > 0 on the Output (its buckets empty or
\* not) organise_layers stores the margins (0,0,0,0) and reports the negation of
\* the margins stored before; with one exclusive surface, anchored to a single
\* edge with a zone within the output extent, it stores the zone on that edge and
\* 0 on the other three.
C15_NoneAndSingleEdge ==
    [][\A o \in Outs :
          OrganiseStep(o) =>
              /\ ExclusiveOn(o) = {} =>
                     /\ reserved'[o] = Zero4
                     /\ ReportedDeltas(calls') = <<Sub4(Zero4, reserved[o])>>
              /\ \A w \in ExclusiveOn(o) : \A e \in Edges :
                     (/\ ExclusiveOn(o) = {w}
                      /\ wins[w].anchor = {e}
                      /\ wins[w].zone <= Extent(o, e)) =>
                         reserved'[o] = OnEdge(e, wins[w].zone)
      ]_vars

\* The last exclusive surface is gone and organise_layers has given back the
\* margins it had reserved.
C15_Witness ==
    \E o \in Outs :
        /\ Organised(o)
        /\ OnOutput(o) = {}
        /\ reserved[o] = Zero4
        /\ ReportedDeltas(calls) # <<Zero4>>
        /\ Len(ReportedDeltas(calls)) = 1

\* The surfaces of o from the top layer down, in insertion order within a layer.
TopDown(o) ==
    layers[o][OVERLAY] \o layers[o][TOP] \o layers[o][BOTTOM] \o layers[o][BACKGROUND]
\* configure then place, for each window of s in turn.
ConfigurePlace(s) ==
    [i \in 1..(2 * Len(s)) |->
        IF i % 2 = 1 THEN <<"configure", s[(i + 1) \div 2]>>
        ELSE <<"place", s[i \div 2]>>]
\* What a handler did to arrange: its configure and place calls with their
\* window, and its reports to reserve_space, in order.
Arranged(c) ==
    LET sel == SelectSeq(c, LAMBDA e : e[1] \in {"configure", "place", "reserve_space"})
    IN [i \in DOMAIN sel |->
           IF sel[i][1] = "reserve_space" THEN <<"reserve_space">>
           ELSE <<sel[i][1], sel[i][2]>>]

\* C16: one organise_layers configures and places every surface in the four
\* buckets of the Output exactly once: those with exclusive_zone > 0 in the pass
\* before the report to reserve_space, the others in the pass after it, each pass
\* going through OVERLAY, TOP, BOTTOM, BACKGROUND and through each layer in
\* insertion order; and the call changes neither the buckets nor the position.
C16_EachSurfaceOnceInOrder ==
    /\ [](\A o \in Outs :
             Organised(o) =>
                 Arranged(calls) =
                     ConfigurePlace(SelectSeq(TopDown(o), LAMBDA w : wins[w].zone > 0))
                     \o <<<<"reserve_space">>>>
                     \o ConfigurePlace(SelectSeq(TopDown(o), LAMBDA w : wins[w].zone <= 0)))
    /\ [][\A o \in Outs : OrganiseStep(o) => layers' = layers /\ pos' = pos]_vars

\* Two exclusive surfaces, the one in BACKGROUND mapped before the one in TOP,
\* and organise_layers has configured the TOP one first.
C16_Witness ==
    \E o \in Outs : \E a \in Wins : \E b \in Wins :
        /\ Organised(o)
        /\ b < a
        /\ InBucket(a, o, TOP) /\ InBucket(b, o, BACKGROUND)
        /\ wins[a].zone > 0 /\ wins[b].zone > 0
        /\ Arranged(calls)[1] = <<"configure", a>>
        /\ Arranged(calls)[3] = <<"configure", b>>

RECURSIVE MarginSum(_)
MarginSum(S) ==
    IF S = {} THEN Zero4
    ELSE LET o == CHOOSE v \in S : TRUE
         IN Add4(reserved[o], MarginSum(S \ {o}))

\* C17 (as claimed): in every state, for each screen, the sum of the deltas
\* reported for that screen is the sum of the stored margins of the live Outputs
\* mapped to that screen; a destroyed Output contributes nothing.
C17_SinkMatchesLiveOutputs ==
    \A s \in DOMAIN screens :
        sink[s] = MarginSum({o \in core_outputs : screen(o) = s})
====
